---- MODULE Spec2Model ----
(***************************************************************************)
(* The live-synchronisation engine of fabric-editor-mcp: the relay/mirror  *)
(* service (src/mcp-server/index.js) and the client synchronisation        *)
(* adapter (src/packages/core/plugin/DesignAutomationPlugin.ts).           *)
(*                                                                         *)
(* A JavaScript object is a function from its keys to their values; a key  *)
(* the object does not carry reads as Undefined.  A spread or an           *)
(* Object.assign is the function merge @@, whose left operand wins.        *)
(***************************************************************************)
EXTENDS Integers, Sequences, FiniteSets, TLC

VARIABLES
  localDesignState,   \* relay: the mirror {layers, background, tokens}
  activeConnections,  \* relay: the registered sockets
  srvReady,           \* relay: readyState of each connection's socket
  pendingRequests,    \* relay: keys of the pendingRequests map
  snapCall,           \* relay: each get_snapshot call, by requestId
  nextRequestId,      \* the next fresh requestId
  toolResult,         \* relay: what the last tool call returned
  toRelay,            \* frames in flight, peer -> relay, per connection
  toClient,           \* frames in flight, relay -> peer, per connection
                      \* (for the scripted peer: the frames it has read)
  wsState,            \* peer: readyState of its WebSocket
  canvas,             \* editor: the fabric canvas' objects, in paint order
  activeObject,       \* editor: index of canvas.getActiveObject(), 0 for none
  isProcessingRemote, \* editor: the echo-suppression flag
  resetTimers,        \* editor: pending 100 ms timers that clear the flag
  shots,              \* editor: getScreenshot() calls still rendering
  uuidNext,           \* the next value uuid() returns
  tokens,             \* editor: this.tokens, the design tokens
  cloudSaves,         \* editor: 'automation:save-to-cloud' events it has raised
  destroyed,          \* editor: destory() has run, the observers are detached
  arrived,            \* history: the events applied to the mirror, in order
  dropped,            \* history: the mirror's layer counts when the relay discarded a frame
  sentResponses,      \* history: the Responses the editors have sent
  reserved,           \* history: where an event for id "workspace" acted
  budget              \* inputs the environment may still produce

vars == <<localDesignState, activeConnections, srvReady, pendingRequests,
          snapCall, nextRequestId, toolResult, toRelay, toClient, wsState,
          canvas, activeObject, isProcessingRemote, resetTimers, shots, uuidNext,
          tokens, cloudSaves, destroyed, arrived, dropped,
          sentResponses, reserved, budget>>

relayVars == <<localDesignState, activeConnections, srvReady, pendingRequests,
               snapCall, nextRequestId, toolResult>>
netVars == <<toRelay, toClient, wsState>>
editorVars == <<canvas, activeObject, isProcessingRemote, resetTimers, shots,
                uuidNext, tokens, cloudSaves, destroyed>>
historyVars == <<arrived, dropped, sentResponses, reserved>>

(***************************************************************************)
(* Bounds of the model.                                                    *)
(***************************************************************************)
MaxEvents == 2      \* inputs (edits, tool calls, closes) per behaviour
MaxArrived == 4     \* events applied in the mirror-only specification
MaxRequests == 2    \* get_snapshot calls per behaviour
MaxCloses == 3      \* closes and failed attempts in the reconnection specification
MaxDrops == 1       \* connections dropped in the snapshot specification
MaxSeries == 3      \* inputs per behaviour of the ordering specification
TickMs == 10000     \* the granularity of time in the snapshot specification

(***************************************************************************)
(* JavaScript values.                                                      *)
(***************************************************************************)
Undefined == "undefined"
Workspace == "workspace"
EmptyMap == [k \in {} |-> Undefined]

Get(obj, k) == IF k \in DOMAIN obj THEN obj[k] ELSE Undefined

\* Object.assign(target, source), and {...target, ...source}
ObjectAssign(target, source) == source @@ target

Range(s) == {s[i] : i \in DOMAIN s}

(***************************************************************************)
(* Messages.  One JSON frame is a record of the fields the handlers read;  *)
(* a field the frame does not carry is Undefined (requestId 0, hasArgs     *)
(* FALSE).                                                                 *)
(***************************************************************************)
NoArgs ==
  [type |-> Undefined, id |-> Undefined, props |-> EmptyMap,
   color |-> Undefined, tokens |-> EmptyMap, colors |-> <<>>]

NoPayload == [layers |-> <<>>, background |-> Undefined, image |-> Undefined]

\* parses: whether JSON.parse accepts the frame's text
NoMsg ==
  [type |-> Undefined, tool |-> Undefined, hasArgs |-> FALSE, args |-> NoArgs,
   source |-> Undefined, requestId |-> 0, payload |-> NoPayload,
   status |-> Undefined, parses |-> TRUE]

\* {tool, args, source}
MutationEvent(tool, args, source) ==
  [NoMsg EXCEPT !.tool = tool, !.hasArgs = TRUE, !.args = args, !.source = source]

CreateArgs(type, props) == [NoArgs EXCEPT !.type = type, !.props = props]
UpdateArgs(id, props) == [NoArgs EXCEPT !.id = id, !.props = props]
DeleteArgs(id) == [NoArgs EXCEPT !.id = id]

(***************************************************************************)
(* The relay's mirror: updateLocalState.                                   *)
(***************************************************************************)
InitialDesignState ==
  [layers |-> <<>>, background |-> "#ffffff", tokens |-> EmptyMap]

\* layers.find((l) => l.id === id): the index of the first match, 0 for none
FindLayer(layers, id) ==
  IF \E i \in DOMAIN layers : Get(layers[i], "id") = id
  THEN CHOOSE i \in DOMAIN layers :
         /\ Get(layers[i], "id") = id
         /\ \A j \in DOMAIN layers : Get(layers[j], "id") = id => i <= j
  ELSE 0

\* { id: args.props.id, type: args.type, ...args.props }: the spread comes
\* last, its keys win
NewNode(args) ==
  args.props @@ ("id" :> Get(args.props, "id")) @@ ("type" :> args.type)

\* { id: args.id, ...args.props }
UpsertNode(args) == args.props @@ ("id" :> args.id)

CreateNodeCase(layers, args) == Append(layers, NewNode(args))

UpdateNodeCase(layers, args) ==
  LET i == FindLayer(layers, args.id) IN
  IF i # 0
  THEN [layers EXCEPT ![i] = ObjectAssign(@, args.props)]
  ELSE Append(layers, UpsertNode(args))

\* a delete that removes the first node of the id only
DeleteFirstMatch(layers, args) ==
  LET i == FindLayer(layers, args.id)
  IN IF i = 0 THEN layers
     ELSE SubSeq(layers, 1, i - 1) \o SubSeq(layers, i + 1, Len(layers))

\* layers.filter((l) => l.id !== args.id)
DeleteNodeCase(layers, args) ==
  LET Keep(l) == Get(l, "id") # args.id IN SelectSeq(layers, Keep)

\* a default case that paints the theme's colors on the mirror's nodes
DefaultCasePainting(st, msg) ==
  IF msg.tool = "apply_theme" /\ msg.args.colors # <<>>
  THEN [st EXCEPT !.layers =
          [i \in DOMAIN @ |->
             ("fill" :> msg.args.colors[((i - 1) % Len(msg.args.colors)) + 1])
               @@ @[i]]]
  ELSE st

\* default: break
DefaultCase(st, msg) == st

updateLocalState(st, msg) ==
  CASE msg.tool = "create_node" ->
         [st EXCEPT !.layers = CreateNodeCase(@, msg.args)]
    [] msg.tool = "update_node" ->
         [st EXCEPT !.layers = UpdateNodeCase(@, msg.args)]
    [] msg.tool = "delete_node" ->
         [st EXCEPT !.layers = DeleteNodeCase(@, msg.args)]
    [] msg.tool = "clear_canvas" ->
         [st EXCEPT !.layers = <<>>]
    [] msg.tool = "set_background_color" ->
         [st EXCEPT !.background = msg.args.color]
    [] msg.tool = "set_design_tokens" ->
         [st EXCEPT !.tokens = ObjectAssign(@, msg.args.tokens)]
    [] OTHER -> DefaultCase(st, msg)

(***************************************************************************)
(* The relay's connection registry and fan-out.                            *)
(***************************************************************************)
Editors == {"e1", "e2"}     \* browser editors running the plugin
Scripts == {"t1"}           \* a scripted peer of the message bus
Peers == Editors \cup Scripts
NoSocket == "null"

RecognizedSources ==
  {"MANUAL_UI", "AI", "TEST", "TEST_SCRIPT", "MCP_TEST", "TEST_PATTERN"}

\* the sockets broadcastAction(action, skipWs) sends to
BroadcastTargets(skipWs) ==
  {ws \in activeConnections : ws # skipWs /\ srvReady[ws] = "OPEN"}

\* broadcastAction without its skipWs test
broadcastActionToAll(queues, action, skipWs) ==
  [ws \in Peers |->
     IF ws \in BroadcastTargets(NoSocket)
     THEN Append(queues[ws], action)
     ELSE queues[ws]]

\* a fan-out that sends the frame twice
broadcastActionTwice(queues, action, skipWs) ==
  [ws \in Peers |->
     IF ws \in BroadcastTargets(skipWs)
     THEN queues[ws] \o <<action, action>>
     ELSE queues[ws]]

\* a fan-out that puts the frame ahead of the frames still in flight
broadcastActionAhead(queues, action, skipWs) ==
  [ws \in Peers |->
     IF ws \in BroadcastTargets(skipWs)
     THEN <<action>> \o queues[ws]
     ELSE queues[ws]]

\* broadcastAction: the queues after the sends
broadcastAction(queues, action, skipWs) ==
  [ws \in Peers |->
     IF ws \in BroadcastTargets(skipWs)
     THEN Append(queues[ws], action)
     ELSE queues[ws]]

\* ws.send(data) on the relay's side of one connection
SendTo(queues, ws, data) ==
  IF srvReady[ws] = "OPEN"
  THEN [queues EXCEPT ![ws] = Append(@, data)]
  ELSE queues

\* the acknowledgment of lines 109-116 (requestId: Date.now().toString())
Acknowledgment(msg) ==
  [NoMsg EXCEPT !.type = "RESPONSE", !.requestId = -1, !.tool = msg.tool,
                !.status = "success"]

\* args is destructured from msg and then read: a frame without args throws
UpdateThrows(msg) ==
  /\ ~msg.hasArgs
  /\ msg.tool \in {"create_node", "update_node", "delete_node",
                   "set_background_color", "set_design_tokens"}

\* a synchronisation that keeps the nodes the mirror held
SyncedLayersAppended(payload) ==
  localDesignState.layers \o
    [i \in DOMAIN payload.layers |->
       payload.layers[i].style
         @@ ("id" :> payload.layers[i].id) @@ ("type" :> payload.layers[i].type)]

\* msg.payload.layers.map((layer) => ({id, type, ...layer.style}))
SyncedLayers(payload) ==
  [i \in DOMAIN payload.layers |->
     payload.layers[i].style
       @@ ("id" :> payload.layers[i].id) @@ ("type" :> payload.layers[i].type)]

\* the node id a Mutation Event names
EventId(msg) ==
  CASE msg.tool = "create_node" -> Get(msg.args.props, "id")
    [] msg.tool \in {"update_node", "delete_node"} -> msg.args.id
    [] OTHER -> Undefined

TouchesReserved(msg) == msg.hasArgs /\ EventId(msg) = Workspace

(***************************************************************************)
(* The relay's socket handlers.                                            *)
(***************************************************************************)
\* wss.on('connection'): the socket is registered, nothing is sent
ServerOnConnection(ws) ==
  /\ wsState[ws] = "CONNECTING"
  /\ ws \notin activeConnections
  /\ activeConnections' = activeConnections \cup {ws}
  /\ srvReady' = [srvReady EXCEPT ![ws] = "OPEN"]
  /\ UNCHANGED <<localDesignState, pendingRequests, snapCall, nextRequestId,
                 toolResult, netVars, editorVars, historyVars, budget>>

\* a lookup that finds no Pending Request
PendingNone(requestId) == 0

\* a lookup that answers any Pending Request, whatever the requestId
PendingAny(requestId) ==
  IF pendingRequests # {}
  THEN CHOOSE r \in pendingRequests : \A q \in pendingRequests : r <= q
  ELSE 0

\* a lookup that hands a Response whose request is gone to the newest
\* Pending Request
PendingOrNewest(requestId) ==
  IF requestId \in pendingRequests THEN requestId
  ELSE IF pendingRequests # {}
       THEN CHOOSE r \in pendingRequests : \A q \in pendingRequests : r >= q
       ELSE 0

\* pendingRequests.get(requestId): the request it resolves, 0 for none
PendingFor(requestId) == IF requestId \in pendingRequests THEN requestId ELSE 0

\* a relay that acknowledges every event it mirrors
ShouldAcknowledgeAll(msg) == TRUE

\* line 108: msg.source !== 'MANUAL_UI' && msg.tool !== 'get_screenshot'
ShouldAcknowledge(msg) == msg.source # "MANUAL_UI" /\ msg.tool # "get_screenshot"

\* a relay that passes on only the Responses that have a Pending Request
IsResponsePending(msg) ==
  msg.type = "RESPONSE" /\ msg.requestId \in pendingRequests

\* line 121: msg.type === 'RESPONSE' && msg.requestId
IsResponse(msg) == msg.type = "RESPONSE" /\ msg.requestId # 0

\* a relay that reads whatever fields the text still shows
ParsedAnyText(msg) == TRUE

\* JSON.parse(data), line 93: whether it returns rather than throws
Parsed(msg) == msg.parses

\* ws.on('message'), lines 91-150, on one frame of connection ws
RelayOnMessage(ws) ==
  /\ ws \in activeConnections
  /\ toRelay[ws] # <<>>
  /\ LET msg == Head(toRelay[ws])
         recognized == Parsed(msg) /\ msg.source \in RecognizedSources
         throws == ~Parsed(msg) \/ (recognized /\ UpdateThrows(msg))
         mutates == recognized /\ ~throws
         st1 == IF mutates
                THEN updateLocalState(localDesignState, msg)
                ELSE localDesignState
         q1 == IF mutates THEN broadcastAction(toClient, msg, ws) ELSE toClient
         acks == mutates /\ ShouldAcknowledge(msg)
         q2 == IF acks THEN SendTo(q1, ws, Acknowledgment(msg)) ELSE q1
         isResponse == ~throws /\ IsResponse(msg)
         q3 == IF isResponse THEN broadcastAction(q2, msg, ws) ELSE q2
         pending == IF isResponse THEN PendingFor(msg.requestId) ELSE 0
         resolves == pending # 0
         answers == isResponse /\ msg.requestId \in DOMAIN snapCall
         isSync == ~throws /\ msg.type = "INITIAL_STATE_SYNC"
         st2 == IF isSync
                THEN [st1 EXCEPT !.layers = SyncedLayers(msg.payload),
                                 !.background = msg.payload.background]
                ELSE st1
     IN /\ toRelay' = [toRelay EXCEPT ![ws] = Tail(@)]
        /\ localDesignState' = st2
        /\ toClient' = q3
        /\ pendingRequests' =
             IF resolves THEN pendingRequests \ {msg.requestId} ELSE pendingRequests
        /\ LET heard ==
                 IF answers /\ snapCall[msg.requestId].received = Undefined
                 THEN [snapCall EXCEPT
                         ![msg.requestId].received = msg.payload.image,
                         ![msg.requestId].inTime =
                            snapCall[msg.requestId].status = "pending"]
                 ELSE snapCall
           IN snapCall' =
                IF resolves
                THEN [heard EXCEPT ![pending].status = "resolved",
                                   ![pending].result = msg.payload.image,
                                   ![pending].timer = FALSE]
                ELSE heard
        /\ reserved' =
             IF mutates /\ TouchesReserved(msg)
             THEN reserved \cup {"mirror"}
             ELSE reserved
        /\ dropped' =
             IF throws \/ ~(recognized \/ isResponse \/ isSync
                              \/ msg.type = "HANDSHAKE")
             THEN dropped \cup {Len(localDesignState.layers)}
             ELSE dropped
  /\ UNCHANGED <<activeConnections, srvReady, nextRequestId, toolResult,
                 wsState, editorVars, arrived, sentResponses, budget>>

\* a close handler that leaves the socket in the registry
ServerOnCloseKeeps(ws) ==
  /\ ws \in activeConnections
  /\ srvReady[ws] = "CLOSING"
  /\ srvReady' = [srvReady EXCEPT ![ws] = "CLOSED"]
  /\ toRelay' = [toRelay EXCEPT ![ws] = <<>>]
  /\ UNCHANGED <<localDesignState, activeConnections, pendingRequests, snapCall,
                 nextRequestId, toolResult, toClient, wsState, editorVars,
                 historyVars, budget>>

\* ws.on('close'): the socket leaves the registry
ServerOnClose(ws) ==
  /\ ws \in activeConnections
  /\ srvReady[ws] = "CLOSING"
  /\ activeConnections' = activeConnections \ {ws}
  /\ srvReady' = [srvReady EXCEPT ![ws] = "CLOSED"]
  /\ toRelay' = [toRelay EXCEPT ![ws] = <<>>]
  /\ UNCHANGED <<localDesignState, pendingRequests, snapCall, nextRequestId,
                 toolResult, toClient, wsState, editorVars, historyVars, budget>>

(***************************************************************************)
(* The automation facade: the CallToolRequestSchema handler.               *)
(***************************************************************************)
NoSchema == [layers |-> <<>>, background |-> Undefined, tokens |-> EmptyMap]

\* what a call returns: the tool called, the isError flag, the schema text
\* of get_design_schema, the message of an error result
ToolReturn(name, isError, schema) ==
  [name |-> name, isError |-> isError, schema |-> schema, text |-> Undefined]

\* JSON.stringify leaves out the keys of an object whose value is undefined
Stringified(obj) == [k \in {j \in DOMAIN obj : obj[j] # Undefined} |-> obj[k]]

\* an answer that is the document the relay started with
GetDesignSchemaStale(st) == InitialDesignState

\* JSON.stringify(localDesignState): what get_design_schema answers
GetDesignSchema(st) ==
  [layers |-> [i \in DOMAIN st.layers |-> Stringified(st.layers[i])],
   background |-> st.background,
   tokens |-> Stringified(st.tokens)]

\* case 'get_design_schema'
CallGetDesignSchema ==
  /\ budget > 0
  /\ budget' = budget - 1
  /\ toolResult' =
       ToolReturn("get_design_schema", FALSE, GetDesignSchema(localDesignState))
  /\ UNCHANGED <<localDesignState, activeConnections, srvReady, pendingRequests,
                 snapCall, nextRequestId, netVars, editorVars, historyVars>>

\* case 'create_node' | 'update_node' | 'clear_canvas' | 'apply_theme'
CallMutationTool(name, args) ==
  /\ budget > 0
  /\ budget' = budget - 1
  /\ localDesignState' =
       updateLocalState(localDesignState, MutationEvent(name, args, "AI"))
  /\ toClient' =
       broadcastAction(toClient, MutationEvent(name, args, Undefined), NoSocket)
  /\ toolResult' = ToolReturn(name, FALSE, NoSchema)
  /\ reserved' =
       IF TouchesReserved(MutationEvent(name, args, "AI"))
       THEN reserved \cup {"mirror"}
       ELSE reserved
  /\ UNCHANGED <<activeConnections, srvReady, pendingRequests, snapCall,
                 nextRequestId, toRelay, wsState, editorVars, arrived, dropped,
                 sentResponses>>

\* an error message that leaves the tool out
UnknownToolMessageBare(name) == "unknown tool"

\* the message of new Error(`... : ${name}`), line 395 ("unknown tool: name")
UnknownToolMessage(name) == "unknown tool: " \o name

\* default: throw, caught at line 397: { content: error.message, isError }
CallUnknownTool(name, args) ==
  /\ budget > 0
  /\ budget' = budget - 1
  /\ toolResult' =
       [ToolReturn(name, TRUE, NoSchema) EXCEPT !.text = UnknownToolMessage(name)]
  /\ UNCHANGED <<localDesignState, activeConnections, srvReady, pendingRequests,
                 snapCall, nextRequestId, netVars, editorVars, historyVars>>

\* `req-save-${Date.now()}`: no get_snapshot requestId, no acknowledgment's
SaveRequestId == -2

\* the frame save_to_cloud broadcasts: {tool, requestId, args}
SaveRequest == [NoMsg EXCEPT !.tool = "save_to_cloud",
                             !.requestId = SaveRequestId, !.hasArgs = TRUE]

\* case 'save_to_cloud': a call without arguments throws at args.name and
\* returns the error; a call with arguments broadcasts and returns at once
CallSaveToCloud(hasArgs) ==
  /\ budget > 0
  /\ budget' = budget - 1
  /\ toClient' =
       IF hasArgs THEN broadcastAction(toClient, SaveRequest, NoSocket)
       ELSE toClient
  /\ toolResult' = ToolReturn("save_to_cloud", ~hasArgs, NoSchema)
  /\ UNCHANGED <<localDesignState, activeConnections, srvReady, pendingRequests,
                 snapCall, nextRequestId, toRelay, wsState, editorVars,
                 historyVars>>

(***************************************************************************)
(* The editor: the fabric canvas and the plugin's observers.  One run of   *)
(* a handler threads a record ed through the calls it makes:               *)
(*   objs, active  the canvas and its active object                        *)
(*   flag          isProcessingRemote                                      *)
(*   open          this.ws.readyState === WebSocket.OPEN                   *)
(*   sent          the frames this.ws.send() has transmitted               *)
(*   uuid          the next value of uuid()                                *)
(*   emitted       whether an observer sent an event for "workspace"       *)
(*   tokens        this.tokens                                             *)
(*   saves         the 'automation:save-to-cloud' events raised            *)
(*   listening     whether the canvas observers are attached               *)
(***************************************************************************)
StyleKeys == {"left", "fill"}
FabricDefaults == ("left" :> "0") @@ ("fill" :> "rgb(0,0,0)")

Truthy(v) == v # Undefined /\ v # ""

Uuid(n) == "uuid-" \o ToString(n)

\* new fabric.Rect / Circle / IText (options): the class sets the type
FabricObject(type, options) == options @@ ("type" :> type) @@ FabricDefaults

\* _getObjectProps: the snapshot of the style keys (JSON drops undefined)
getObjectProps(obj) ==
  [k \in {j \in StyleKeys : j = "left" \/ Get(obj, j) # Undefined} |->
     IF k = "left" /\ ~Truthy(Get(obj, "left")) THEN "0" ELSE obj[k]]

\* this.ws.send(frame): a socket that is not open transmits nothing
Transmit(ed, frame) ==
  IF ed.open
  THEN [ed EXCEPT !.sent = Append(@, frame),
                  !.emitted = @ \/ TouchesReserved(frame)]
  ELSE ed

\* a report that does not look at isProcessingRemote
reportManualChangeUnguarded(ed, obj) ==
  IF ~ed.open THEN ed
  ELSE IF Get(obj, "id") = Workspace THEN ed
  ELSE Transmit(ed, MutationEvent("update_node",
                      UpdateArgs(Get(obj, "id"), getObjectProps(obj)),
                      "MANUAL_UI"))

\* _reportManualChange(obj)
reportManualChange(ed, obj) ==
  IF ed.flag \/ ~ed.open THEN ed
  ELSE IF Get(obj, "id") = Workspace THEN ed
  ELSE Transmit(ed, MutationEvent("update_node",
                      UpdateArgs(Get(obj, "id"), getObjectProps(obj)),
                      "MANUAL_UI"))

\* attachedHandlers.reportAdded, for the object at index i; ignore is the
\* object's _automation_ignore mark, which only this handler reads
reportAdded(ed, i, ignore) ==
  LET obj == ed.objs[i] IN
  IF ed.flag \/ ~ed.open THEN ed
  ELSE IF Get(obj, "id") = Workspace \/ ignore THEN ed
  ELSE LET fresh == ~Truthy(Get(obj, "id"))
           named == IF fresh THEN ("id" :> Uuid(ed.uuid)) @@ obj ELSE obj
           ed1 == [ed EXCEPT !.objs[i] = named,
                             !.uuid = IF fresh THEN @ + 1 ELSE @]
       IN Transmit(ed1, MutationEvent("create_node",
                          CreateArgs(Get(named, "type"),
                                     getObjectProps(named) @@ ("id" :> named["id"])),
                          "MANUAL_UI"))

\* attachedHandlers.reportRemoved
reportRemoved(ed, obj) ==
  IF ed.flag THEN ed
  ELSE IF Truthy(Get(obj, "id")) /\ Get(obj, "id") # Workspace
       THEN Transmit(ed, MutationEvent("delete_node",
                           DeleteArgs(obj["id"]), "MANUAL_UI"))
       ELSE ed

\* canvas.add(obj): fires object:added
canvasAdd(ed, obj, ignore) ==
  LET added == [ed EXCEPT !.objs = Append(@, obj)]
  IN IF ed.listening THEN reportAdded(added, Len(ed.objs) + 1, ignore) ELSE added

RemoveAt(s, i) == [j \in 1..(Len(s) - 1) |-> IF j < i THEN s[j] ELSE s[j + 1]]

\* canvas.remove(obj) of the object at index i: fires object:removed
canvasRemove(ed, i) ==
  LET removed ==
        [ed EXCEPT !.objs = RemoveAt(@, i),
                   !.active = IF @ = i THEN 0 ELSE IF @ > i THEN @ - 1 ELSE @]
  IN IF ed.listening THEN reportRemoved(removed, ed.objs[i]) ELSE removed

\* the hooked editor.saveState(): reports the active object
saveState(ed) ==
  IF ed.active # 0 THEN reportManualChange(ed, ed.objs[ed.active]) ELSE ed

\* _save()
save(ed) == saveState(ed)

\* _find(id): the index of the first object with the id, 0 for none
find(objs, id) == FindLayer(objs, id)

\* the fabric class createNode's switch picks for type.toLowerCase()
FabricType(type) ==
  CASE type = "rect" -> "rect"
    [] type = "circle" -> "circle"
    [] type \in {"text", "i-text", "textbox"} -> "i-text"
    [] OTHER -> Undefined

\* this.tokens[color] || color
TokenOr(ed, color) ==
  IF Truthy(Get(ed.tokens, color)) THEN ed.tokens[color] ELSE color

\* if (props.fill && this.tokens[props.fill]) props.fill = this.tokens[props.fill]
ResolveFill(ed, props) ==
  IF Truthy(Get(props, "fill"))
  THEN ("fill" :> TokenOr(ed, props["fill"])) @@ props
  ELSE props

\* createNode(type, props)
createNode(ed, type, props) ==
  LET fresh == ~Truthy(Get(props, "id"))
      id == IF fresh THEN Uuid(ed.uuid) ELSE props["id"]
      finalProps == ResolveFill(ed, ("id" :> id) @@ props)
      ed0 == [ed EXCEPT !.uuid = IF fresh THEN @ + 1 ELSE @]
      ed1 == IF FabricType(type) # Undefined
             THEN LET added == canvasAdd(ed0, FabricObject(FabricType(type), finalProps), TRUE)
                  IN [added EXCEPT !.active = Len(added.objs)]
             ELSE ed0
  IN IF type = Undefined THEN ed0 ELSE save(ed1)

\* updateNodeProps(id, props)
updateNodeProps(ed, id, props) ==
  LET i == find(ed.objs, id) IN
  IF i = 0 THEN ed
  ELSE save([ed EXCEPT !.objs[i] = ObjectAssign(@, ResolveFill(ed, props))])

\* deleteNode(id)
deleteNode(ed, id) ==
  LET i == find(ed.objs, id) IN
  IF i = 0 THEN ed ELSE save(canvasRemove(ed, i))

\* editor.clear(): every object but the workspace is removed from the canvas
RECURSIVE editorClear(_)
editorClear(ed) ==
  IF \E i \in DOMAIN ed.objs : Get(ed.objs[i], "id") # Workspace
  THEN LET i == CHOOSE j \in DOMAIN ed.objs :
                  /\ Get(ed.objs[j], "id") # Workspace
                  /\ \A k \in DOMAIN ed.objs :
                       Get(ed.objs[k], "id") # Workspace => j <= k
       IN editorClear(canvasRemove(ed, i))
  ELSE [ed EXCEPT !.active = 0]

\* applyTheme(colors): colors[i % colors.length] over the canvas' objects
applyTheme(ed, colors) ==
  save([ed EXCEPT !.objs =
         [i \in DOMAIN ed.objs |->
            IF Get(ed.objs[i], "id") # Workspace /\ colors # <<>>
            THEN ("fill" :> TokenOr(ed, colors[((i - 1) % Len(colors)) + 1]))
                   @@ ed.objs[i]
            ELSE ed.objs[i]]])

\* this.editor.emit('automation:save-to-cloud', args)
emitSaveToCloud(ed) == [ed EXCEPT !.saves = @ + 1]

\* the switch of _handleRemoteCommand, entered with the flag set
RemoteSwitch(ed, tool, args) ==
  CASE tool = "create_node" -> createNode(ed, args.type, args.props)
    [] tool = "update_node" -> updateNodeProps(ed, args.id, args.props)
    [] tool = "delete_node" -> deleteNode(ed, args.id)
    [] tool = "clear_canvas" -> editorClear(ed)
    [] tool = "apply_theme" -> applyTheme(ed, args.colors)
    [] tool = "save_to_cloud" -> emitSaveToCloud(ed)
    [] OTHER -> ed

\* _handleRemoteCommand without its first line, this.isProcessingRemote = true
handleRemoteCommandUnflagged(ed, tool, args) == RemoteSwitch(ed, tool, args)

\* _handleRemoteCommand(tool, args), up to the timer its finally block arms
handleRemoteCommand(ed, tool, args) ==
  RemoteSwitch([ed EXCEPT !.flag = TRUE], tool, args)

\* getDesignSchema().layers
SchemaLayers(objs) ==
  LET NotWorkspace(o) == Get(o, "id") # Workspace
      shown == SelectSeq(objs, NotWorkspace)
  IN [i \in DOMAIN shown |->
        [type |-> Get(shown[i], "type"), id |-> Get(shown[i], "id"),
         style |-> getObjectProps(shown[i])]]

\* a synchronisation that reports an empty document
reportInitialStateBlank(ed) ==
  Transmit(ed, [NoMsg EXCEPT !.type = "INITIAL_STATE_SYNC"])

\* _reportInitialState(): reading the fill of a missing workspace throws
reportInitialState(ed) ==
  IF find(ed.objs, Workspace) = 0 THEN ed
  ELSE Transmit(ed,
         [NoMsg EXCEPT !.type = "INITIAL_STATE_SYNC",
            !.payload = [NoPayload EXCEPT
               !.layers = SchemaLayers(ed.objs),
               !.background = Get(ed.objs[find(ed.objs, Workspace)], "fill")]])

Handshake == [NoMsg EXCEPT !.type = "HANDSHAKE"]

\* the state a handler of editor c starts from
Ed(c) ==
  [objs |-> canvas[c], active |-> activeObject[c],
   flag |-> isProcessingRemote[c], open |-> wsState[c] = "OPEN",
   sent |-> <<>>, uuid |-> uuidNext, emitted |-> FALSE, tokens |-> tokens[c],
   saves |-> cloudSaves[c], listening |-> ~destroyed[c]]

\* the handler's effects written back
Commit(c, ed) ==
  /\ canvas' = [canvas EXCEPT ![c] = ed.objs]
  /\ activeObject' = [activeObject EXCEPT ![c] = ed.active]
  /\ toRelay' = [toRelay EXCEPT ![c] = @ \o ed.sent]
  /\ uuidNext' = ed.uuid
  /\ tokens' = [tokens EXCEPT ![c] = ed.tokens]
  /\ cloudSaves' = [cloudSaves EXCEPT ![c] = ed.saves]
  /\ UNCHANGED destroyed

(***************************************************************************)
(* The editor's socket handlers and timers.                                *)
(***************************************************************************)
SnapshotTimeoutMs == 10000

\* ws.onopen: the Handshake, then _reportInitialState()
EditorOnOpen(c) ==
  /\ c \in Editors
  /\ wsState[c] = "CONNECTING"
  /\ c \in activeConnections
  /\ wsState' = [wsState EXCEPT ![c] = "OPEN"]
  /\ LET ed0 == [Ed(c) EXCEPT !.open = TRUE]
         ed == reportInitialState(Transmit(ed0, Handshake))
     IN toRelay' = [toRelay EXCEPT ![c] = @ \o ed.sent]
  /\ UNCHANGED <<relayVars, toClient, editorVars, historyVars, budget>>

\* _handleDataRequest(tool, args, requestId), up to its first await
DataResponse(objs, msg) ==
  CASE msg.tool = "get_design_schema" ->
         <<[NoMsg EXCEPT !.type = "RESPONSE", !.requestId = msg.requestId,
              !.payload = [NoPayload EXCEPT !.layers = SchemaLayers(objs)]]>>
    [] msg.tool = "save_to_cloud" ->
         <<[NoMsg EXCEPT !.type = "RESPONSE", !.requestId = msg.requestId,
              !.status = "triggered"]>>
    [] OTHER -> <<>>

\* _handleDataRequest(tool, args, requestId): save_to_cloud raises the
\* event before its Response is sent
handleDataRequest(ed, msg) ==
  LET ed0 == IF msg.tool = "save_to_cloud" THEN emitSaveToCloud(ed) ELSE ed
  IN [ed0 EXCEPT !.sent = @ \o DataResponse(ed0.objs, msg)]

\* ws.onmessage, lines 297-315, on one frame
EditorOnMessage(c) ==
  /\ c \in Editors
  /\ wsState[c] = "OPEN"
  /\ toClient[c] # <<>>
  /\ LET msg == Head(toClient[c])
         isCommand == Truthy(msg.tool) /\ msg.hasArgs
         isData == Truthy(msg.tool) /\ msg.requestId # 0
         ed1 == IF isCommand
                THEN handleRemoteCommand(Ed(c), msg.tool, msg.args)
                ELSE Ed(c)
         ed2 == IF isData
                THEN handleDataRequest(ed1, msg)
                ELSE ed1
     IN /\ toClient' = [toClient EXCEPT ![c] = Tail(@)]
        /\ Commit(c, ed2)
        /\ isProcessingRemote' = [isProcessingRemote EXCEPT ![c] = ed2.flag]
        /\ resetTimers' =
             [resetTimers EXCEPT ![c] = IF isCommand THEN @ + 1 ELSE @]
        /\ shots' =
             [shots EXCEPT ![c] =
                IF isData /\ msg.tool = "get_screenshot"
                THEN @ \cup {msg.requestId} ELSE @]
        /\ reserved' =
             reserved
               \cup (IF isCommand /\ TouchesReserved(msg) THEN {"client"} ELSE {})
               \cup (IF ed2.emitted THEN {"emitted"} ELSE {})
  /\ UNCHANGED <<relayVars, wsState, arrived, dropped, sentResponses, budget>>

\* the timer _handleRemoteCommand armed: this.isProcessingRemote = false
ResetTimerFire(c) ==
  /\ c \in Editors
  /\ resetTimers[c] > 0
  /\ resetTimers' = [resetTimers EXCEPT ![c] = @ - 1]
  /\ isProcessingRemote' = [isProcessingRemote EXCEPT ![c] = FALSE]
  /\ UNCHANGED <<relayVars, netVars, canvas, activeObject, shots, uuidNext, tokens,
                 cloudSaves, destroyed,
                 historyVars, budget>>

\* a reconnection that is given up once the behaviour's closes are spent
EditorReconnectBounded(c) ==
  /\ c \in Editors
  /\ budget > 0
  /\ wsState[c] = "CLOSED"
  /\ c \notin activeConnections
  /\ wsState' = [wsState EXCEPT ![c] = "CONNECTING"]
  /\ UNCHANGED <<relayVars, toRelay, toClient, editorVars, historyVars, budget>>

\* ws.onclose of the editor: setTimeout(connect, 3000) runs connect()
EditorReconnect(c) ==
  /\ c \in Editors
  /\ wsState[c] = "CLOSED"
  /\ c \notin activeConnections
  /\ wsState' = [wsState EXCEPT ![c] = "CONNECTING"]
  /\ UNCHANGED <<relayVars, toRelay, toClient, editorVars, historyVars, budget>>

(***************************************************************************)
(* The environment: the user at an editor, the scripted peer, the network. *)
(***************************************************************************)
Spend == budget > 0 /\ budget' = budget - 1

\* an observer's run written back (the flag and the timers stay)
Observed(c, ed) ==
  /\ Commit(c, ed)
  /\ reserved' = reserved \cup (IF ed.emitted THEN {"emitted"} ELSE {})
  /\ UNCHANGED <<relayVars, toClient, wsState, isProcessingRemote, resetTimers,
                 shots, arrived, dropped, sentResponses>>

\* the user adds an object: canvas.add fires object:added
UserAdd(c, obj) ==
  /\ c \in Editors
  /\ Spend
  /\ Observed(c, canvasAdd(Ed(c), obj, FALSE))

\* the user changes an object: fabric fires object:modified
UserModify(c, i, props) ==
  /\ c \in Editors
  /\ i \in DOMAIN canvas[c]
  /\ Spend
  /\ LET ed == [Ed(c) EXCEPT !.objs[i] = ObjectAssign(@, props)]
     IN Observed(c, IF ed.listening THEN reportManualChange(ed, ed.objs[i])
                    ELSE ed)

\* the user deletes an object: canvas.remove fires object:removed
UserRemove(c, i) ==
  /\ c \in Editors
  /\ i \in DOMAIN canvas[c]
  /\ Get(canvas[c][i], "id") # Workspace
  /\ Spend
  /\ Observed(c, canvasRemove(Ed(c), i))

\* the scripted peer sends a Mutation Event
ScriptSend(t, msg) ==
  /\ t \in Scripts
  /\ wsState[t] = "OPEN"
  /\ Spend
  /\ toRelay' = [toRelay EXCEPT ![t] = Append(@, msg)]
  /\ UNCHANGED <<relayVars, toClient, wsState, editorVars, historyVars>>

\* the attempt of editor c fails before the relay accepts it: onerror, then
\* onclose
ConnectFail(c) ==
  /\ c \in Editors
  /\ wsState[c] = "CONNECTING"
  /\ c \notin activeConnections
  /\ Spend
  /\ wsState' = [wsState EXCEPT ![c] = "CLOSED"]
  /\ UNCHANGED <<relayVars, toRelay, toClient, editorVars, historyVars>>

\* the connection of editor p drops: p's socket closes, the relay's is closing
Disconnect(p) ==
  /\ p \in Editors
  /\ wsState[p] = "OPEN"
  /\ Spend
  /\ wsState' = [wsState EXCEPT ![p] = "CLOSED"]
  /\ srvReady' = [srvReady EXCEPT ![p] = "CLOSING"]
  /\ toClient' = [toClient EXCEPT ![p] = <<>>]
  /\ UNCHANGED <<localDesignState, activeConnections, pendingRequests, snapCall,
                 nextRequestId, toolResult, toRelay, editorVars, historyVars>>

\* destory(): _removeListeners(), then this.ws.close() on whatever socket
\* the adapter holds; the socket's onclose handler stays attached
Destroy(c) ==
  /\ c \in Editors
  /\ ~destroyed[c]
  /\ destroyed' = [destroyed EXCEPT ![c] = TRUE]
  /\ wsState' = [wsState EXCEPT ![c] = "CLOSED"]
  /\ srvReady' = [srvReady EXCEPT
                    ![c] = IF c \in activeConnections THEN "CLOSING" ELSE @]
  /\ toClient' = [toClient EXCEPT ![c] = <<>>]
  /\ UNCHANGED <<localDesignState, activeConnections, pendingRequests, snapCall,
                 nextRequestId, toolResult, toRelay, canvas, activeObject,
                 isProcessingRemote, resetTimers, shots, uuidNext, tokens,
                 cloudSaves, historyVars, budget>>

(***************************************************************************)
(* The synchronisation specification: the relay, two editors and a         *)
(* scripted peer exchanging Mutation Events.  A behaviour starts with      *)
(* every peer connected and the editors' Handshake and Initial-State-Sync  *)
(* (of a canvas holding the workspace alone) handled by the relay.         *)
(***************************************************************************)
WorkspaceObject ==
  FabricObject("rect", ("id" :> Workspace) @@ ("fill" :> "#ffffff"))

\* props of an update_node, and of a change the user makes
UpdateProps == {("left" :> "20"), ("fill" :> "blue")}

\* objects the user draws: the editor's tools name most of them
UserObjects ==
  {FabricObject("rect", ("id" :> "n1")), FabricObject("circle", EmptyMap)}

\* the automation calls of a behaviour: create_node with an id, without
\* one and with a props map that has a type key of its own (props is any
\* object), update_node of a node and of the reserved id
ToolCalls ==
  {<<"create_node", CreateArgs("rect", ("id" :> "n1") @@ ("fill" :> "red"))>>,
   <<"create_node", CreateArgs("rect", ("id" :> "n2") @@ ("type" :> "circle"))>>,
   <<"create_node", CreateArgs("text", ("left" :> "10"))>>,
   <<"update_node", UpdateArgs("n1", ("left" :> "20"))>>,
   <<"update_node", UpdateArgs(Workspace, ("fill" :> "blue"))>>,
   <<"clear_canvas", NoArgs>>,
   <<"apply_theme", [NoArgs EXCEPT !.colors = <<"green">>]>>}

\* calls of tools the facade's switch has no case for
UnknownCalls ==
  {<<"delete_node", DeleteArgs("n1")>>, <<"no_such_tool", NoArgs>>}

\* the text of a Mutation Event cut short, which is not JSON
Unparseable ==
  [MutationEvent("create_node", CreateArgs("rect", ("id" :> "n2")), "TEST")
     EXCEPT !.parses = FALSE]

\* the frames the scripted peer sends: Mutation Events with a test source, a
\* text that does not parse, an event with a source the relay does not know
\* and a frame of an unknown type
ScriptEvents ==
  {MutationEvent("create_node", CreateArgs("rect", ("id" :> "n1")), "TEST"),
   MutationEvent("delete_node", DeleteArgs("n1"), "TEST"),
   MutationEvent("apply_theme", [NoArgs EXCEPT !.colors = <<"green">>], "TEST"),
   MutationEvent("set_background_color", [NoArgs EXCEPT !.color = "#000000"], "TEST"),
   MutationEvent("set_design_tokens",
                 [NoArgs EXCEPT !.tokens = ("primary" :> "red")], "TEST"),
   Unparseable,
   MutationEvent("create_node", CreateArgs("rect", ("id" :> "n1")), "ROGUE"),
   [NoMsg EXCEPT !.type = "PING"]}

\* a get_snapshot call: its outcome (status, result), its timeout timer
\* (timer, elapsed) and, as history, the sockets its request was sent to and
\* the first Response with its requestId the relay handled
NoCall ==
  [status |-> "unissued", result |-> Undefined, timer |-> FALSE, elapsed |-> 0,
   reached |-> {}, received |-> Undefined, inTime |-> FALSE]

Init ==
  /\ localDesignState = InitialDesignState
  /\ activeConnections = Peers
  /\ srvReady = [p \in Peers |-> "OPEN"]
  /\ pendingRequests = {}
  /\ snapCall = [r \in 1..MaxRequests |-> NoCall]
  /\ nextRequestId = 1
  /\ toolResult = ToolReturn(Undefined, FALSE, NoSchema)
  /\ toRelay = [p \in Peers |-> <<>>]
  /\ toClient = [p \in Peers |-> <<>>]
  /\ wsState = [p \in Peers |-> "OPEN"]
  /\ canvas = [c \in Editors |-> <<WorkspaceObject>>]
  /\ activeObject = [c \in Editors |-> 0]
  /\ isProcessingRemote = [c \in Editors |-> FALSE]
  /\ resetTimers = [c \in Editors |-> 0]
  /\ shots = [c \in Editors |-> {}]
  /\ uuidNext = 1
  /\ tokens = [c \in Editors |-> EmptyMap]
  /\ cloudSaves = [c \in Editors |-> 0]
  /\ destroyed = [c \in Editors |-> FALSE]
  /\ arrived = <<>>
  /\ dropped = {}
  /\ sentResponses = {}
  /\ reserved = {}
  /\ budget = MaxEvents

Next ==
  \/ \E p \in Peers : ServerOnConnection(p)
  \/ \E p \in Peers : RelayOnMessage(p)
  \/ \E p \in Peers : ServerOnClose(p)
  \/ CallGetDesignSchema
  \/ \E call \in ToolCalls : CallMutationTool(call[1], call[2])
  \/ \E call \in UnknownCalls : CallUnknownTool(call[1], call[2])
  \/ \E c \in Editors : EditorOnOpen(c)
  \/ \E c \in Editors : EditorOnMessage(c)
  \/ \E c \in Editors : ResetTimerFire(c)
  \/ \E c \in Editors : EditorReconnect(c)
  \/ \E c \in Editors, obj \in UserObjects : UserAdd(c, obj)
  \/ \E c \in Editors, i \in 1..(MaxEvents + 2) :
        UserModify(c, i, ("left" :> "20"))
  \/ \E c \in Editors, i \in 1..(MaxEvents + 2) : UserRemove(c, i)
  \/ \E t \in Scripts, msg \in ScriptEvents : ScriptSend(t, msg)
  \/ \E c \in Editors : Disconnect(c)

Spec == Init /\ [][Next]_vars

(***************************************************************************)
(* Properties of the synchronisation specification.                        *)
(***************************************************************************)
\* a well-formed Mutation Event with a recognized source
IsMutationEvent(msg) ==
  msg.parses /\ Truthy(msg.tool) /\ msg.hasArgs /\ msg.source \in RecognizedSources

\* the frames the step appended to the queue of connection c
NewFrames(c) == SubSeq(toClient'[c], Len(toClient[c]) + 1, Len(toClient'[c]))

\* C1 (broadcast exclusion): when the relay handles a Mutation Event with a
\* recognized source received on connection a, the event is sent to every
\* other registered connection whose socket is open, and no frame sent to a
\* in that step is the event.
BroadcastExclusion ==
  [][\A a \in Peers :
       (/\ toRelay[a] # <<>>
        /\ IsMutationEvent(Head(toRelay[a]))
        /\ RelayOnMessage(a))
       => /\ \A c \in Peers \ {a} :
               (c \in activeConnections /\ srvReady[c] = "OPEN")
                 => toClient'[c] = Append(toClient[c], Head(toRelay[a]))
          /\ \A i \in DOMAIN NewFrames(a) : NewFrames(a)[i] # Head(toRelay[a])
    ]_vars

\* C1 witness: an editor holds the scripted peer's event, relayed to it,
\* while the scripted peer has read frames of the relay and none is the event.
BroadcastExclusionWitness ==
  /\ \E i \in DOMAIN toClient["e1"] : toClient["e1"][i].source = "TEST"
  /\ toClient["t1"] # <<>>
  /\ \A i \in DOMAIN toClient["t1"] : toClient["t1"][i].source # "TEST"

MutationTools ==
  {"create_node", "update_node", "delete_node", "clear_canvas", "apply_theme"}

\* C2 (echo suppression): the step in which an editor applies a Mutation
\* Event received from its connection sends no frame on that connection:
\* no observer the change triggers transmits anything.
EchoSuppression ==
  [][\A c \in Editors :
       (/\ toClient[c] # <<>>
        /\ Head(toClient[c]).tool \in MutationTools
        /\ Head(toClient[c]).hasArgs
        /\ EditorOnMessage(c))
       => toRelay'[c] = toRelay[c]
    ]_vars

\* C2 witness: an editor has applied a remote create_node (only createNode
\* makes an object active), its flag is still set and it has sent nothing.
EchoSuppressionWitness ==
  \E c \in Editors :
    /\ isProcessingRemote[c]
    /\ activeObject[c] # 0
    /\ Get(canvas[c][activeObject[c]], "id") = "n1"
    /\ toRelay[c] = <<>>

\* C7 (unique node ids): no two nodes of the mirror carry the same id.
UniqueNodeIds ==
  \A i, j \in DOMAIN localDesignState.layers :
    (i # j /\ Truthy(Get(localDesignState.layers[i], "id")))
      => Get(localDesignState.layers[i], "id") # Get(localDesignState.layers[j], "id")

\* nothing is in flight and no timer is pending
Quiescent ==
  /\ \A p \in Peers : toRelay[p] = <<>>
  /\ \A c \in Editors : toClient[c] = <<>> /\ resetTimers[c] = 0 /\ shots[c] = {}
  /\ \A p \in Peers : srvReady[p] # "CLOSING" /\ wsState[p] # "CONNECTING"

Connected(c) == wsState[c] = "OPEN" /\ c \in activeConnections /\ srvReady[c] = "OPEN"

\* the ids of a document's nodes, the reserved one apart
DocIds(nodes) == {Get(nodes[i], "id") : i \in DOMAIN nodes} \ {Workspace}

\* every property the mirror holds of a node has the same value in the editor
SameValues(layers, objs) ==
  \A i \in DOMAIN layers : \A j \in DOMAIN objs :
    Get(layers[i], "id") = Get(objs[j], "id")
      => \A k \in DOMAIN layers[i] \cap StyleKeys : Get(objs[j], k) = layers[i][k]

\* C8 (convergence): in a quiescent state the mirror and every connected
\* editor hold the same node ids with the same property values.
Convergence ==
  Quiescent =>
    \A c \in Editors :
      Connected(c) =>
        /\ DocIds(localDesignState.layers) = DocIds(canvas[c])
        /\ SameValues(localDesignState.layers, canvas[c])

\* C9 (reserved id isolation): no event for the id "workspace" was emitted
\* by an editor, applied by an editor's remote-command handler, or applied
\* to the mirror.
ReservedIdIsolation == reserved = {}

\* C10 (end-to-end create): the automation call create_node(K, props with
\* id X) on an empty mirror leaves a state in which get_design_schema
\* answers exactly one layer, of id X and type K.
EndToEndCreate ==
  [][\A call \in ToolCalls :
       (/\ call[1] = "create_node"
        /\ Truthy(Get(call[2].props, "id"))
        /\ localDesignState.layers = <<>>
        /\ CallMutationTool(call[1], call[2]))
       => LET schema == GetDesignSchema(localDesignState') IN
          /\ Len(schema.layers) = 1
          /\ Get(schema.layers[1], "id") = call[2].props["id"]
          /\ Get(schema.layers[1], "type") = call[2].type
    ]_vars

\* C11 (end-to-end delete): after the automation call delete_node(X),
\* get_design_schema answers a layer list without a node of id X.
EndToEndDelete ==
  [][\A call \in UnknownCalls :
       (call[1] = "delete_node" /\ CallUnknownTool(call[1], call[2]))
         => FindLayer(GetDesignSchema(localDesignState').layers, call[2].id) = 0
    ]_vars

\* C19 (unknown tool): a call of a tool the facade has no case for returns
\* an error result that names the tool, changes neither the mirror nor the
\* Pending Requests, and sends no frame.
UnknownToolError ==
  [][\A call \in UnknownCalls :
       CallUnknownTool(call[1], call[2])
         => /\ toolResult'.isError
            /\ toolResult'.text = "unknown tool: " \o call[1]
            /\ localDesignState' = localDesignState
            /\ pendingRequests' = pendingRequests
            /\ toClient' = toClient
    ]_vars

\* an unknown tool was called while the mirror held a node
UnknownToolErrorWitness ==
  /\ toolResult.name = "no_such_tool"
  /\ toolResult.isError
  /\ localDesignState.layers # <<>>

\* the text reads as the document: the same nodes in the same order, and
\* every key of a node, of the tokens and the background with the same value
ReadsAs(schema, st) ==
  /\ Len(schema.layers) = Len(st.layers)
  /\ \A i \in DOMAIN st.layers :
       \A k \in DOMAIN st.layers[i] \cup DOMAIN schema.layers[i] :
         Get(schema.layers[i], k) = Get(st.layers[i], k)
  /\ schema.background = st.background
  /\ \A k \in DOMAIN st.tokens \cup DOMAIN schema.tokens :
       Get(schema.tokens, k) = Get(st.tokens, k)

\* C21 (get_design_schema): the call answers the mirror's current state as
\* a non-error result, sends no frame on any connection, creates no Pending
\* Request and leaves the mirror as it was.
SchemaFromMirror ==
  [][CallGetDesignSchema
       => /\ ~toolResult'.isError
          /\ ReadsAs(toolResult'.schema, localDesignState)
          /\ toClient' = toClient
          /\ toRelay' = toRelay
          /\ pendingRequests' = pendingRequests
          /\ localDesignState' = localDesignState
    ]_vars

\* get_design_schema has answered a mirror that holds a node
SchemaFromMirrorWitness ==
  /\ toolResult.name = "get_design_schema"
  /\ toolResult.schema.layers # <<>>
  /\ ReadsAs(toolResult.schema, localDesignState)

\* C22 (automation command): a call of create_node, update_node,
\* clear_canvas or apply_theme applies the command to the mirror and sends
\* to every open connection one frame that carries the tool, the args and
\* the automation source "AI".
AutomationBroadcastTagged ==
  [][\A call \in ToolCalls :
       CallMutationTool(call[1], call[2])
         => /\ localDesignState' =
                 updateLocalState(localDesignState,
                                  MutationEvent(call[1], call[2], "AI"))
            /\ \A c \in BroadcastTargets(NoSocket) :
                 /\ Len(NewFrames(c)) = 1
                 /\ NewFrames(c)[1].tool = call[1]
                 /\ NewFrames(c)[1].args = call[2]
                 /\ NewFrames(c)[1].source = "AI"
    ]_vars

\* the acknowledgments among the frames the step sent to connection c
AcksSent(c) ==
  {i \in DOMAIN NewFrames(c) :
     NewFrames(c)[i].type = "RESPONSE" /\ NewFrames(c)[i].status = "success"}

\* C23 (acknowledgment policy): when the relay handles a Mutation Event of
\* source MANUAL_UI it sends no acknowledgment to any connection; when it
\* handles one of another recognized source, the tool get_screenshot apart,
\* it sends exactly one success acknowledgment naming the event's tool to
\* the sender and none to any other connection.
AcknowledgmentPolicy ==
  [][\A a \in Peers :
       (/\ toRelay[a] # <<>>
        /\ IsMutationEvent(Head(toRelay[a]))
        /\ RelayOnMessage(a))
       => LET msg == Head(toRelay[a]) IN
          /\ msg.source = "MANUAL_UI" => \A c \in Peers : AcksSent(c) = {}
          /\ (msg.source # "MANUAL_UI" /\ msg.tool # "get_screenshot") =>
                /\ Cardinality(AcksSent(a)) = 1
                /\ \A i \in AcksSent(a) : NewFrames(a)[i].tool = msg.tool
                /\ \A c \in Peers \ {a} : AcksSent(c) = {}
    ]_vars

\* the scripted peer has read the acknowledgment of its event and an
\* editor's event, and no editor has an acknowledgment waiting
AcknowledgmentPolicyWitness ==
  /\ \E i \in DOMAIN toClient["t1"] :
       toClient["t1"][i].type = "RESPONSE" /\ toClient["t1"][i].status = "success"
  /\ \E i \in DOMAIN toClient["t1"] : toClient["t1"][i].source = "MANUAL_UI"
  /\ \A c \in Editors : \A i \in DOMAIN toClient[c] :
       toClient[c][i].type # "RESPONSE"

\* the background of editor c's document: the fill of its workspace
\* object, which the Initial-State-Sync reports as the background
ClientBackground(objs) ==
  IF find(objs, Workspace) = 0 THEN Undefined
  ELSE Get(objs[find(objs, Workspace)], "fill")

\* C28 (client dispatcher): when an editor handles a set_design_tokens
\* event, every token of the event is in its tokens mapping afterwards, and
\* when it handles a set_background_color event its background is the
\* event's color afterwards, as the mirror's are once the relay has applied
\* the event.
ClientDispatchesAll ==
  [][\A c \in Editors :
       (toClient[c] # <<>> /\ Head(toClient[c]).hasArgs /\ EditorOnMessage(c)) =>
         LET msg == Head(toClient[c]) IN
         /\ msg.tool = "set_design_tokens" =>
              \A k \in DOMAIN msg.args.tokens :
                Get(tokens'[c], k) = msg.args.tokens[k]
         /\ msg.tool = "set_background_color" =>
              ClientBackground(canvas'[c]) = msg.args.color
    ]_vars

\* C29 (apply_theme): an apply_theme event a peer sends and an apply_theme
\* call of the automation facade both leave the mirror's layers, background
\* and tokens as they were; the peer's event is sent to every other open
\* connection and the call's to every open connection.
ThemeLeavesMirror ==
  /\ [][\A a \in Peers :
          (/\ toRelay[a] # <<>>
           /\ IsMutationEvent(Head(toRelay[a]))
           /\ Head(toRelay[a]).tool = "apply_theme"
           /\ RelayOnMessage(a))
          => /\ localDesignState' = localDesignState
             /\ \A c \in BroadcastTargets(a) :
                  Head(toRelay[a]) \in Range(NewFrames(c))]_vars
  /\ [][\A call \in ToolCalls :
          (call[1] = "apply_theme" /\ CallMutationTool(call[1], call[2]))
          => /\ localDesignState' = localDesignState
             /\ \A c \in BroadcastTargets(NoSocket) :
                  \E i \in DOMAIN NewFrames(c) :
                    /\ NewFrames(c)[i].tool = "apply_theme"
                    /\ NewFrames(c)[i].args = call[2]]_vars

\* an editor has painted a node with the theme's color and the mirror
\* holds the node with the fill it was created with
ThemeLeavesMirrorWitness ==
  /\ FindLayer(localDesignState.layers, "n1") # 0
  /\ Get(localDesignState.layers[FindLayer(localDesignState.layers, "n1")],
         "fill") = "red"
  /\ \E c \in Editors :
       /\ find(canvas[c], "n1") # 0
       /\ Get(canvas[c][find(canvas[c], "n1")], "fill") = "green"

\* C31 (flag held while a reset is pending): as long as the deferred reset
\* of a remote command an editor applied is still to fire, the editor's
\* isProcessingRemote is true; the reset of an earlier command does not
\* clear the flag under a later command whose reset is outstanding.
FlagHeldWhileResetPending ==
  \A c \in Editors : resetTimers[c] > 0 => isProcessingRemote[c]

\* the frame is a create_node the automation facade broadcast, of a type
\* the editor has a fabric class for
AutomationCreate(msg) ==
  /\ msg.tool = "create_node"
  /\ msg.hasArgs
  /\ msg.source = Undefined
  /\ FabricType(msg.args.type) # Undefined

\* C35 (one id per created node): when an editor applies a create_node of
\* the automation facade, the object it creates has the id the node has in
\* the mirror, also when the props of the call carry no id.
CreatedIdAgrees ==
  [][\A c \in Editors :
       (/\ toClient[c] # <<>>
        /\ AutomationCreate(Head(toClient[c]))
        /\ EditorOnMessage(c))
       => /\ Len(canvas'[c]) = Len(canvas[c]) + 1
          /\ Get(canvas'[c][Len(canvas'[c])], "id")
               = Get(NewNode(Head(toClient[c]).args), "id")
    ]_vars

(***************************************************************************)
(* The mirror alone: updateLocalState applied to a stream of events.       *)
(***************************************************************************)
MirrorEvents ==
  {MutationEvent("create_node", CreateArgs("rect", ("id" :> "n1") @@ ("fill" :> "red")), "AI"),
   MutationEvent("update_node", UpdateArgs("n1", ("left" :> "20")), "AI"),
   MutationEvent("update_node", UpdateArgs("n1", ("fill" :> "blue")), "MANUAL_UI"),
   MutationEvent("update_node", UpdateArgs("n2", ("left" :> "20")), "MANUAL_UI"),
   MutationEvent("delete_node", DeleteArgs("n1"), "MANUAL_UI"),
   MutationEvent("clear_canvas", NoArgs, "AI")}

MirrorApply(ev) ==
  /\ Len(arrived) < MaxArrived
  /\ localDesignState' = updateLocalState(localDesignState, ev)
  /\ arrived' = Append(arrived, ev)
  /\ UNCHANGED <<activeConnections, srvReady, pendingRequests, snapCall,
                 nextRequestId, toolResult, netVars, editorVars, dropped,
                 sentResponses, reserved, budget>>

NextMirror == \E ev \in MirrorEvents : MirrorApply(ev)

SpecMirror == Init /\ [][NextMirror]_vars

\* the style properties of a node or of an event's props
StyleOf(obj) == [k \in DOMAIN obj \cap StyleKeys |-> obj[k]]

\* the merge, in arrival order, of the props of the events that name id
RECURSIVE MergedProps(_, _)
MergedProps(events, id) ==
  IF events = <<>> THEN EmptyMap
  ELSE LET last == events[Len(events)]
           before == MergedProps(SubSeq(events, 1, Len(events) - 1), id)
       IN IF EventId(last) = id
          THEN ObjectAssign(before, StyleOf(last.args.props))
          ELSE before

\* only create_node and update_node events have named id, and one has
OnlyUpserts(events, id) ==
  /\ \E i \in DOMAIN events : EventId(events[i]) = id
  /\ \A i \in DOMAIN events :
       /\ events[i].tool # "clear_canvas"
       /\ EventId(events[i]) = id => events[i].tool \in {"create_node", "update_node"}

\* C6 (upsert convergence): after any sequence of create_node and
\* update_node events for id n1, the node the mirror finds for n1 has the
\* properties of the events' props merged in arrival order.
UpsertConvergence ==
  OnlyUpserts(arrived, "n1") =>
    /\ FindLayer(localDesignState.layers, "n1") # 0
    /\ StyleOf(localDesignState.layers[FindLayer(localDesignState.layers, "n1")])
         = MergedProps(arrived, "n1")

\* C13 (client-side upsert): after an editor has applied a remote
\* update_node, its document holds a node of the event's id, whether or not
\* it held one before.
ClientUpsert ==
  [][\A c \in Editors :
       (/\ toClient[c] # <<>>
        /\ Head(toClient[c]).tool = "update_node"
        /\ Head(toClient[c]).hasArgs
        /\ EditorOnMessage(c))
         => find(canvas'[c], Head(toClient[c]).args.id) # 0
    ]_vars

\* new is old with a node appended, a node merged into, the nodes of one id
\* removed, or every node removed: no node changes place
KeepsPlace(old, new) ==
  \/ new = <<>>
  \/ /\ Len(new) = Len(old)
     /\ \A i \in DOMAIN old : Get(new[i], "id") = Get(old[i], "id")
  \/ Len(new) = Len(old) + 1 /\ SubSeq(new, 1, Len(old)) = old
  \/ \E gone \in {Get(old[i], "id") : i \in DOMAIN old} :
       LET Keep(l) == Get(l, "id") # gone IN new = SelectSeq(old, Keep)

\* C14 (Initial-State-Sync replaces): when the relay handles an
\* INITIAL_STATE_SYNC, the mirror's nodes become the payload's layers, one
\* node per layer in payload order with the layer's id, type and style, the
\* background becomes the payload's and the tokens stay; a frame of any
\* other kind leaves every node it keeps in its place.
SyncReplaces ==
  [][\A ws \in Peers :
       (toRelay[ws] # <<>> /\ RelayOnMessage(ws)) =>
         LET msg == Head(toRelay[ws])
             sent == msg.payload.layers
             now == localDesignState'.layers
         IN IF msg.type = "INITIAL_STATE_SYNC"
            THEN /\ Len(now) = Len(sent)
                 /\ \A i \in DOMAIN sent :
                      /\ DOMAIN now[i] = DOMAIN sent[i].style \cup {"id", "type"}
                      /\ now[i]["id"] = sent[i].id
                      /\ now[i]["type"] = sent[i].type
                      /\ \A k \in DOMAIN sent[i].style : now[i][k] = sent[i].style[k]
                 /\ localDesignState'.background = msg.payload.background
                 /\ localDesignState'.tokens = localDesignState.tokens
            ELSE KeepsPlace(localDesignState.layers, now)
    ]_vars

\* the mirror held the node an update_node call upserted, no reader of the
\* bus and no call removed it, and the synchronisation of a reconnected
\* editor has emptied the mirror
SyncReplacesWitness ==
  /\ localDesignState.layers = <<>>
  /\ toolResult.name = "update_node"
  /\ budget = 0
  /\ \A t \in Scripts : \A i \in DOMAIN toClient[t] : toClient[t][i].type # "RESPONSE"
  /\ \A c \in Editors : wsState[c] = "OPEN" /\ toRelay[c] = <<>>

\* the ids of the objects of a canvas, in paint order, the workspace apart
LayerIds(objs) ==
  LET NotWorkspace(o) == Get(o, "id") # Workspace
      shown == SelectSeq(objs, NotWorkspace)
  IN [i \in DOMAIN shown |-> Get(shown[i], "id")]

\* C16 (handshake, then synchronisation): an editor sends nothing on a
\* connection that has not opened, and when the connection opens (the first
\* time or after a reconnection) it sends the Handshake and then an
\* INITIAL_STATE_SYNC whose layers are the objects of its canvas; a
\* Mutation Event can only follow these two.
HandshakeFirst ==
  /\ [](\A c \in Editors : wsState[c] = "CONNECTING" => toRelay[c] = <<>>)
  /\ [][\A c \in Editors :
          EditorOnOpen(c) =>
            LET new == SubSeq(toRelay'[c], Len(toRelay[c]) + 1, Len(toRelay'[c]))
            IN /\ Len(new) = 2
               /\ new[1].type = "HANDSHAKE" /\ new[1].tool = Undefined
               /\ new[2].type = "INITIAL_STATE_SYNC" /\ new[2].tool = Undefined
               /\ [i \in DOMAIN new[2].payload.layers |->
                     new[2].payload.layers[i].id] = LayerIds(canvas[c])
       ]_vars

\* a reconnected editor whose canvas holds a node has sent its two frames
HandshakeFirstWitness ==
  \E c \in Editors :
    /\ wsState[c] = "OPEN"
    /\ Len(toRelay[c]) = 2
    /\ toRelay[c][1].type = "HANDSHAKE"
    /\ toRelay[c][2].type = "INITIAL_STATE_SYNC"
    /\ toRelay[c][2].payload.layers # <<>>

\* the observer's step sent one Mutation Event of the tool from editor c
SentEvent(c, tool) ==
  /\ Len(toRelay'[c]) = Len(toRelay[c]) + 1
  /\ SubSeq(toRelay'[c], 1, Len(toRelay[c])) = toRelay[c]
  /\ toRelay'[c][Len(toRelay'[c])].tool = tool
  /\ toRelay'[c][Len(toRelay'[c])].source = "MANUAL_UI"

\* editor c is not replaying a remote event and its connection is open
MayReport(c) == ~isProcessingRemote[c] /\ wsState[c] = "OPEN"

Reportable(obj) == Get(obj, "id") # Workspace

Malformed(msg) ==
  \/ ~msg.parses
  \/ /\ msg.source \notin RecognizedSources
     /\ msg.type \notin {"RESPONSE", "HANDSHAKE", "INITIAL_STATE_SYNC"}

\* C20 (malformed message): when the relay handles a frame that does not
\* parse or matches no envelope shape, the mirror, the Pending Requests and
\* the registry stay as they were, no frame is sent and the sender stays
\* registered; and in every state, also after such a frame, a Mutation Event
\* the relay handles is applied to the mirror and sent to every other open
\* connection.
MalformedDropped ==
  [][\A ws \in Peers :
       (toRelay[ws] # <<>> /\ RelayOnMessage(ws)) =>
         LET msg == Head(toRelay[ws])
         IN /\ Malformed(msg) =>
                 /\ localDesignState' = localDesignState
                 /\ pendingRequests' = pendingRequests
                 /\ activeConnections' = activeConnections
                 /\ toClient' = toClient
                 /\ ws \in activeConnections'
            /\ (~Malformed(msg) /\ IsMutationEvent(msg)
                  /\ msg.tool = "create_node") =>
                 /\ Len(localDesignState'.layers) = Len(localDesignState.layers) + 1
                 /\ Get(localDesignState'.layers[Len(localDesignState'.layers)],
                        "id") = Get(msg.args.props, "id")
                 /\ \A b \in BroadcastTargets(ws) : msg \in Range(NewFrames(b))
    ]_vars

\* the relay has discarded a frame and, after it, mirrored an event and
\* sent it to an editor
MalformedDroppedWitness ==
  /\ 0 \in dropped
  /\ FindLayer(localDesignState.layers, "n1") # 0
  /\ \E c \in Editors : \E i \in DOMAIN toClient[c] :
       toClient[c][i].tool = "create_node" /\ toClient[c][i].source = "TEST"

\* C12 (idempotent delete): a delete_node for an id the mirror does not
\* hold leaves the mirror as it was, and applying the same delete_node again
\* to the mirror it produced changes nothing.
IdempotentDelete ==
  [][\A ev \in MirrorEvents :
       (ev.tool = "delete_node" /\ MirrorApply(ev))
         => /\ FindLayer(localDesignState.layers, ev.args.id) = 0
                 => localDesignState' = localDesignState
            /\ updateLocalState(localDesignState', ev) = localDesignState'
    ]_vars

\* n1 was created, then deleted twice, and another node is left
IdempotentDeleteWitness ==
  /\ Len(arrived) = 4
  /\ arrived[1].tool = "update_node" /\ EventId(arrived[1]) = "n2"
  /\ arrived[2].tool = "create_node"
  /\ arrived[3].tool = "delete_node"
  /\ arrived[4].tool = "delete_node"
  /\ FindLayer(localDesignState.layers, "n1") = 0
  /\ Len(localDesignState.layers) = 1

(***************************************************************************)
(* get_snapshot: the facade's request, its timeout, the editor's answer.   *)
(* requestIds are req-<Date.now()>-<random>: a fresh number per call.      *)
(* Time is counted on the armed snapshot timers, in steps of TickMs.       *)
(***************************************************************************)
Images == {"data:image/png;a", "data:image/png;b"}

\* the frame get_snapshot broadcasts
ScreenshotRequest(requestId) ==
  [NoMsg EXCEPT !.tool = "get_screenshot", !.requestId = requestId,
                !.hasArgs = TRUE]

\* case 'get_snapshot', up to the await: broadcast, setTimeout, set
CallGetSnapshot ==
  /\ nextRequestId <= MaxRequests
  /\ nextRequestId' = nextRequestId + 1
  /\ toClient' =
       broadcastAction(toClient, ScreenshotRequest(nextRequestId), NoSocket)
  /\ pendingRequests' = pendingRequests \cup {nextRequestId}
  /\ snapCall' =
       [snapCall EXCEPT ![nextRequestId].status = "pending",
                        ![nextRequestId].timer = TRUE,
                        ![nextRequestId].reached = BroadcastTargets(NoSocket)]
  /\ UNCHANGED <<localDesignState, activeConnections, srvReady, toolResult,
                 toRelay, wsState, editorVars, historyVars, budget>>

\* a timer that fires straight away
TimerDueAtOnce(call) == call.timer

\* setTimeout(..., 10000): the timer of a call has run its delay
TimerDue(call) == call.timer /\ call.elapsed >= SnapshotTimeoutMs

\* TickMs pass: no timer that is due is left waiting
Tick ==
  /\ \E r \in DOMAIN snapCall : snapCall[r].timer
  /\ \A r \in DOMAIN snapCall : ~TimerDue(snapCall[r])
  /\ snapCall' =
       [r \in DOMAIN snapCall |->
          IF snapCall[r].timer
          THEN [snapCall[r] EXCEPT !.elapsed = @ + TickMs]
          ELSE snapCall[r]]
  /\ UNCHANGED <<localDesignState, activeConnections, srvReady, pendingRequests,
                 nextRequestId, toolResult, netVars, editorVars, historyVars,
                 budget>>

\* a timeout that rejects and leaves the Pending Request in the table
SnapshotTimerFireKeeps(r) ==
  /\ r \in DOMAIN snapCall
  /\ snapCall[r].timer /\ snapCall[r].elapsed >= SnapshotTimeoutMs
  /\ snapCall' = [snapCall EXCEPT ![r].timer = FALSE, ![r].status = "failed"]
  /\ UNCHANGED <<localDesignState, activeConnections, srvReady, pendingRequests,
                 nextRequestId, toolResult, netVars, editorVars, historyVars,
                 budget>>

\* the timeout callback: delete the Pending Request, reject; the catch
\* returns 'Snapshot failed: ...' with isError.  A promise already resolved
\* keeps its value (its timer was cleared).
SnapshotTimerFire(r) ==
  /\ r \in DOMAIN snapCall
  /\ TimerDue(snapCall[r])
  /\ pendingRequests' = pendingRequests \ {r}
  /\ snapCall' =
       [snapCall EXCEPT
          ![r].timer = FALSE,
          ![r].status = IF @ = "pending" THEN "failed" ELSE @,
          ![r].result = IF snapCall[r].status = "pending"
                        THEN "Snapshot failed: Snapshot request timed out"
                        ELSE @]
  /\ UNCHANGED <<localDesignState, activeConnections, srvReady, nextRequestId,
                 toolResult, netVars, editorVars, historyVars, budget>>

\* _handleDataRequest after await this.getScreenshot(): the Response, when
\* there is a result ('' where the editor has no preview)
ScreenshotDone(c, requestId, result) ==
  /\ c \in Editors
  /\ requestId \in shots[c]
  /\ shots' = [shots EXCEPT ![c] = @ \ {requestId}]
  /\ LET frame == [NoMsg EXCEPT !.type = "RESPONSE", !.requestId = requestId,
                                !.payload = [NoPayload EXCEPT !.image = result]]
         ed == IF Truthy(result) THEN Transmit(Ed(c), frame) ELSE Ed(c)
     IN /\ toRelay' = [toRelay EXCEPT ![c] = @ \o ed.sent]
        /\ sentResponses' =
             sentResponses \cup
               {[requestId |-> ed.sent[i].requestId,
                 image |-> ed.sent[i].payload.image] : i \in DOMAIN ed.sent}
  /\ UNCHANGED <<relayVars, toClient, wsState, canvas, activeObject,
                 isProcessingRemote, resetTimers, uuidNext, tokens, cloudSaves,
                 destroyed, arrived, dropped,
                 reserved,
                 budget>>

\* no socket is connected yet: editor e1 is about to connect, the other
\* editor and the scripted peer are not running
InitSnap ==
  /\ localDesignState = InitialDesignState
  /\ activeConnections = {}
  /\ srvReady = [p \in Peers |-> "CLOSED"]
  /\ pendingRequests = {}
  /\ snapCall = [r \in 1..MaxRequests |-> NoCall]
  /\ nextRequestId = 1
  /\ toolResult = ToolReturn(Undefined, FALSE, NoSchema)
  /\ toRelay = [p \in Peers |-> <<>>]
  /\ toClient = [p \in Peers |-> <<>>]
  /\ wsState = [p \in Peers |-> IF p = "e1" THEN "CONNECTING" ELSE "CLOSED"]
  /\ canvas = [c \in Editors |-> <<WorkspaceObject>>]
  /\ activeObject = [c \in Editors |-> 0]
  /\ isProcessingRemote = [c \in Editors |-> FALSE]
  /\ resetTimers = [c \in Editors |-> 0]
  /\ shots = [c \in Editors |-> {}]
  /\ uuidNext = 1
  /\ tokens = [c \in Editors |-> EmptyMap]
  /\ cloudSaves = [c \in Editors |-> 0]
  /\ destroyed = [c \in Editors |-> FALSE]
  /\ arrived = <<>>
  /\ dropped = {}
  /\ sentResponses = {}
  /\ reserved = {}
  /\ budget = MaxDrops

NextSnap ==
  \/ \E c \in Editors : ServerOnConnection(c)
  \/ \E c \in Editors : EditorOnOpen(c)
  \/ \E c \in Editors : RelayOnMessage(c)
  \/ \E c \in Editors : EditorOnMessage(c)
  \/ \E c \in Editors : ResetTimerFire(c)
  \/ \E c \in Editors, r \in 1..MaxRequests, result \in Images \cup {""} :
        ScreenshotDone(c, r, result)
  \/ CallGetSnapshot
  \/ Tick
  \/ \E r \in 1..MaxRequests : SnapshotTimerFire(r)
  \/ \E c \in Editors : Disconnect(c)
  \/ \E c \in Editors : ServerOnClose(c)

\* time passes and a due timer fires
SpecSnap ==
  /\ InitSnap
  /\ [][NextSnap]_vars
  /\ WF_vars(Tick)
  /\ \A r \in 1..MaxRequests : WF_vars(SnapshotTimerFire(r))

(***************************************************************************)
(* Properties of the snapshot specification.                               *)
(***************************************************************************)
\* C3 (request/response correlation): with any number of get_snapshot
\* requests outstanding and their Responses arriving in any order, a call
\* that has resolved returns the payload of a Response that was sent with
\* the call's own requestId, never the payload of another request.
RequestResponseCorrelation ==
  \A r \in DOMAIN snapCall :
    snapCall[r].status = "resolved" =>
      [requestId |-> r, image |-> snapCall[r].result] \in sentResponses

\* the second call has resolved while the first is still outstanding
RequestResponseCorrelationWitness ==
  /\ snapCall[2].status = "resolved"
  /\ snapCall[1].status = "pending"
  /\ snapCall[1].received = Undefined

\* the call's request was broadcast while no socket was connected
Lonely(r) == snapCall[r].status # "unissued" /\ snapCall[r].reached = {}

\* C4 (timeout scenario): a get_snapshot issued while no client is
\* connected never resolves, fails with 'Snapshot failed: Snapshot request
\* timed out' only when 10 seconds have passed, and does fail.
TimeoutScenario ==
  \A r \in 1..MaxRequests :
    /\ [](Lonely(r) => snapCall[r].status # "resolved")
    /\ [](Lonely(r) /\ snapCall[r].status = "failed" =>
            /\ snapCall[r].elapsed >= SnapshotTimeoutMs
            /\ snapCall[r].result = "Snapshot failed: Snapshot request timed out")
    /\ (Lonely(r) /\ snapCall[r].status = "pending")
          ~> (snapCall[r].status = "failed")

TimeoutScenarioWitness ==
  \E r \in DOMAIN snapCall : Lonely(r) /\ snapCall[r].status = "failed"

\* C5 as stated (snapshot round trip): whenever a connected client's
\* Response carrying the request's requestId has reached the relay,
\* get_snapshot returns that Response's payload as a non-error result.
AnsweredSnapshotReturns ==
  \A r \in DOMAIN snapCall :
    snapCall[r].received # Undefined =>
      /\ snapCall[r].status = "resolved"
      /\ snapCall[r].result = snapCall[r].received

\* C5 (snapshot round trip): when the first Response carrying the request's
\* requestId reaches the relay while the call is still pending, get_snapshot
\* returns that Response's payload as a non-error result.
SnapshotRoundTrip ==
  \A r \in DOMAIN snapCall :
    snapCall[r].received # Undefined /\ snapCall[r].inTime =>
      /\ snapCall[r].status = "resolved"
      /\ snapCall[r].result = snapCall[r].received

SnapshotRoundTripWitness ==
  \E r \in DOMAIN snapCall :
    /\ snapCall[r].received \in Images
    /\ snapCall[r].inTime
    /\ snapCall[r].status = "resolved"
    /\ snapCall[r].reached # {}

\* the call has returned: its promise is settled
Completed(r) == snapCall[r].status \in {"resolved", "failed"}

\* C15 (Pending Request lifecycle): a get_snapshot call that is pending
\* completes; once completed, its outcome and its result never change
\* (resolved or failed, not both, not twice) and its requestId is not in
\* pendingRequests; a resolved call holds the payload of the first Response
\* with its requestId, which came while it was pending.
PendingLifecycle ==
  /\ [][\A r \in 1..MaxRequests :
          Completed(r) => /\ snapCall'[r].status = snapCall[r].status
                          /\ snapCall'[r].result = snapCall[r].result]_vars
  /\ [](\A r \in 1..MaxRequests : Completed(r) => r \notin pendingRequests)
  /\ [](\A r \in 1..MaxRequests :
          snapCall[r].status = "resolved" =>
             snapCall[r].inTime /\ snapCall[r].result = snapCall[r].received)
  /\ \A r \in 1..MaxRequests : (snapCall[r].status = "pending") ~> Completed(r)

\* one call failed by its timeout, whose Response came late, and one call
\* resolved by its Response
PendingLifecycleWitness ==
  /\ snapCall[1].status = "failed"
  /\ snapCall[1].received \in Images
  /\ snapCall[2].status = "resolved"
  /\ pendingRequests = {}

\* the sockets that have opened and have not closed yet: a socket that
\* dropped is closing until its 'close' event is delivered
OpenedNotClosed == {p \in Peers : srvReady[p] \in {"OPEN", "CLOSING"}}

\* C26 (connection registry): activeConnections is always the set of the
\* connections that have opened and not yet closed; the step that registers
\* a connection sends no frame, and the step that removes one changes
\* neither the mirror nor the Pending Requests.
RegistryTracksConnections ==
  /\ [](activeConnections = OpenedNotClosed)
  /\ [][\A ws \in Peers :
          ServerOnConnection(ws) =>
            /\ activeConnections' = activeConnections \cup {ws}
            /\ toClient' = toClient]_vars
  /\ [][\A ws \in Peers :
          ServerOnClose(ws) =>
            /\ activeConnections' = activeConnections \ {ws}
            /\ localDesignState' = localDesignState
            /\ pendingRequests' = pendingRequests]_vars

\* the only connection a snapshot request reached has closed and left the
\* registry while the request is still pending
RegistryTracksConnectionsWitness ==
  /\ pendingRequests # {}
  /\ activeConnections = {}
  /\ \E r \in pendingRequests : snapCall[r].reached = {"e1"}
  /\ srvReady["e1"] = "CLOSED"

(***************************************************************************)
(* Ordering: the scripted peer sends a numbered series of events, its k-th *)
(* event creating node s<k>, while the users of the editors draw.          *)
(***************************************************************************)
SeriesId(k) == "s" \o ToString(k)

SeriesEvent(k) ==
  MutationEvent("create_node", CreateArgs("rect", ("id" :> SeriesId(k))), "TEST")

\* the acknowledgments the scripted peer has read
AcksRead(t) ==
  Cardinality({i \in DOMAIN toClient[t] :
                 toClient[t][i].type = "RESPONSE" /\ toClient[t][i].status = "success"})

\* the events the scripted peer has sent: those in flight and those acknowledged
SeriesSent(t) == Len(toRelay[t]) + AcksRead(t)

\* the scripted peer sends the next event of its series
ScriptSendNext(t) ==
  /\ t \in Scripts
  /\ wsState[t] = "OPEN"
  /\ Spend
  /\ toRelay' = [toRelay EXCEPT ![t] = Append(@, SeriesEvent(SeriesSent(t) + 1))]
  /\ UNCHANGED <<relayVars, toClient, wsState, editorVars, historyVars>>

InitOrder ==
  /\ localDesignState = InitialDesignState
  /\ activeConnections = Peers
  /\ srvReady = [p \in Peers |-> "OPEN"]
  /\ pendingRequests = {}
  /\ snapCall = [r \in 1..MaxRequests |-> NoCall]
  /\ nextRequestId = 1
  /\ toolResult = ToolReturn(Undefined, FALSE, NoSchema)
  /\ toRelay = [p \in Peers |-> <<>>]
  /\ toClient = [p \in Peers |-> <<>>]
  /\ wsState = [p \in Peers |-> "OPEN"]
  /\ canvas = [c \in Editors |-> <<WorkspaceObject>>]
  /\ activeObject = [c \in Editors |-> 0]
  /\ isProcessingRemote = [c \in Editors |-> FALSE]
  /\ resetTimers = [c \in Editors |-> 0]
  /\ shots = [c \in Editors |-> {}]
  /\ uuidNext = 1
  /\ tokens = [c \in Editors |-> EmptyMap]
  /\ cloudSaves = [c \in Editors |-> 0]
  /\ destroyed = [c \in Editors |-> FALSE]
  /\ arrived = <<>>
  /\ dropped = {}
  /\ sentResponses = {}
  /\ reserved = {}
  /\ budget = MaxSeries

NextOrder ==
  \/ \E t \in Scripts : ScriptSendNext(t)
  \/ \E c \in Editors, obj \in UserObjects : UserAdd(c, obj)
  \/ \E p \in Peers : RelayOnMessage(p)
  \/ \E c \in Editors : EditorOnMessage(c)
  \/ \E c \in Editors : ResetTimerFire(c)

SpecOrder == InitOrder /\ [][NextOrder]_vars

\* the numbers of the series' events among the ids of a sequence of nodes
\* or frames, in the sequence's order
RECURSIVE SeriesNumbers(_)
SeriesNumbers(ids) ==
  IF ids = <<>> THEN <<>>
  ELSE LET ks == {k \in 1..MaxSeries : SeriesId(k) = Head(ids)}
       IN (IF ks = {} THEN <<>> ELSE <<CHOOSE k \in ks : TRUE>>)
            \o SeriesNumbers(Tail(ids))

Increasing(ks) == \A i, j \in DOMAIN ks : i < j => ks[i] < ks[j]

\* the ids of the nodes the mirror holds, in the order they were applied
MirrorOrder == [i \in DOMAIN localDesignState.layers |->
                  Get(localDesignState.layers[i], "id")]

\* the ids of the events editor c has applied, then of those waiting for it
ReceivedOrder(c) ==
  [i \in DOMAIN canvas[c] |-> Get(canvas[c][i], "id")]
    \o [i \in DOMAIN toClient[c] |->
          IF toClient[c][i].source = "TEST" THEN EventId(toClient[c][i])
          ELSE Undefined]

\* C24 (per-connection order): the events the scripted peer sent one after
\* the other are applied to the mirror in the order it sent them, and every
\* other connection receives and applies them in that order, whatever the
\* other connections send in between.
PerConnectionOrder ==
  /\ Increasing(SeriesNumbers(MirrorOrder))
  /\ \A c \in Editors : Increasing(SeriesNumbers(ReceivedOrder(c)))

\* the mirror holds two events of the series, while an editor has applied
\* the first and the second waits for it
PerConnectionOrderWitness ==
  /\ Len(SeriesNumbers(MirrorOrder)) >= 2
  /\ \E c \in Editors :
       /\ \E i \in DOMAIN canvas[c] : Get(canvas[c][i], "id") = SeriesId(1)
       /\ \E i \in DOMAIN toClient[c] :
            toClient[c][i].source = "TEST" /\ EventId(toClient[c][i]) = SeriesId(2)

NoneTwice(ks) == \A i, j \in DOMAIN ks : i # j => ks[i] # ks[j]

\* no frame is in flight in either direction
Flushed ==
  /\ \A p \in Peers : toRelay[p] = <<>>
  /\ \A c \in Editors : toClient[c] = <<>>

\* C25 (exactly-once application): every event of the series the relay has
\* handled is in the mirror once, no event of the series is delivered to or
\* applied by an editor twice, and once nothing is in flight no step but a
\* new input changes the mirror, a canvas or a queue: nothing is replayed.
AppliedOnce ==
  /\ [](/\ NoneTwice(SeriesNumbers(MirrorOrder))
        /\ Len(SeriesNumbers(MirrorOrder)) = AcksRead("t1")
        /\ \A c \in Editors : NoneTwice(SeriesNumbers(ReceivedOrder(c))))
  /\ [][(Flushed /\ budget' = budget)
          => /\ localDesignState' = localDesignState
             /\ canvas' = canvas
             /\ toClient' = toClient
             /\ toRelay' = toRelay]_vars

\* two events of the series were handled and an editor has applied both,
\* with nothing left in flight
AppliedOnceWitness ==
  /\ Flushed
  /\ AcksRead("t1") >= 2
  /\ \E c \in Editors :
       Len(SeriesNumbers([i \in DOMAIN canvas[c] |-> Get(canvas[c][i], "id")])) >= 2

\* the frame connection c's handler is about to read is a Response to a
\* get_snapshot call that has failed by its timeout
LateResponse(c) ==
  /\ toRelay[c] # <<>>
  /\ Head(toRelay[c]).type = "RESPONSE"
  /\ Head(toRelay[c]).requestId \in DOMAIN snapCall
  /\ snapCall[Head(toRelay[c]).requestId].status = "failed"

\* C27 (late Response): when the relay handles a Response to a call that
\* has timed out, the failure reported for the call stays, its requestId
\* does not come back into pendingRequests, and no other call, pending or
\* still to be issued, is answered by it: every call's outcome, the mirror
\* and the Pending Requests are as before.
LateResponseDiscarded ==
  /\ [][\A c \in Editors :
          (LateResponse(c) /\ RelayOnMessage(c)) =>
            /\ pendingRequests' = pendingRequests
            /\ \A r \in DOMAIN snapCall :
                 /\ snapCall'[r].status = snapCall[r].status
                 /\ snapCall'[r].result = snapCall[r].result
                 /\ snapCall'[r].timer = snapCall[r].timer
            /\ localDesignState' = localDesignState]_vars
  /\ [](\A r \in DOMAIN snapCall :
          snapCall[r].status = "failed" =>
            /\ r \notin pendingRequests
            /\ snapCall[r].result = "Snapshot failed: Snapshot request timed out")

\* the Response to the first call was handled after the call had failed,
\* and the second call, issued to the same editor, is still pending
LateResponseDiscardedWitness ==
  /\ snapCall[1].status = "failed"
  /\ snapCall[1].received \in Images
  /\ ~snapCall[1].inTime
  /\ snapCall[2].status = "pending"
  /\ snapCall[2].reached = {"e1"}
  /\ pendingRequests = {2}

(***************************************************************************)
(* Responses: both editors are connected and each answers every           *)
(* get_snapshot request, so that the second Response to a request finds    *)
(* no Pending Request.                                                     *)
(***************************************************************************)
InitResponses ==
  /\ localDesignState = InitialDesignState
  /\ activeConnections = Editors
  /\ srvReady = [p \in Peers |-> IF p \in Editors THEN "OPEN" ELSE "CLOSED"]
  /\ pendingRequests = {}
  /\ snapCall = [r \in 1..MaxRequests |-> NoCall]
  /\ nextRequestId = 1
  /\ toolResult = ToolReturn(Undefined, FALSE, NoSchema)
  /\ toRelay = [p \in Peers |-> <<>>]
  /\ toClient = [p \in Peers |-> <<>>]
  /\ wsState = [p \in Peers |-> IF p \in Editors THEN "OPEN" ELSE "CLOSED"]
  /\ canvas = [c \in Editors |-> <<WorkspaceObject>>]
  /\ activeObject = [c \in Editors |-> 0]
  /\ isProcessingRemote = [c \in Editors |-> FALSE]
  /\ resetTimers = [c \in Editors |-> 0]
  /\ shots = [c \in Editors |-> {}]
  /\ uuidNext = 1
  /\ tokens = [c \in Editors |-> EmptyMap]
  /\ cloudSaves = [c \in Editors |-> 0]
  /\ destroyed = [c \in Editors |-> FALSE]
  /\ arrived = <<>>
  /\ dropped = {}
  /\ sentResponses = {}
  /\ reserved = {}
  /\ budget = 0

NextResponses ==
  \/ CallGetSnapshot
  \/ \E c \in Editors : EditorOnMessage(c)
  \/ \E c \in Editors : ResetTimerFire(c)
  \/ \E c \in Editors, r \in 1..MaxRequests : ScreenshotDone(c, r, "data:image/png;a")
  \/ \E c \in Editors : RelayOnMessage(c)

SpecResponses == InitResponses /\ [][NextResponses]_vars

\* C30 (Response re-broadcast): when the relay handles a Response that
\* carries a requestId, received on connection a, the Response is sent to
\* every other open connection and nothing is sent to a, whether the
\* requestId is in pendingRequests or not.
ResponseRebroadcast ==
  [][\A a \in Peers :
       (/\ toRelay[a] # <<>>
        /\ Head(toRelay[a]).type = "RESPONSE"
        /\ Head(toRelay[a]).requestId # 0
        /\ RelayOnMessage(a))
       => /\ \A c \in Peers \ {a} :
               (c \in activeConnections /\ srvReady[c] = "OPEN")
                 => toClient'[c] = Append(toClient[c], Head(toRelay[a]))
          /\ toClient'[a] = toClient[a]
    ]_vars

\* each editor has been sent the other's Response to the first request:
\* the one that resolved the call and the one that found no Pending Request
ResponseRebroadcastWitness ==
  /\ snapCall[1].status = "resolved"
  /\ 1 \notin pendingRequests
  /\ \A c \in Editors :
       \E i \in DOMAIN toClient[c] :
         toClient[c][i].type = "RESPONSE" /\ toClient[c][i].requestId = 1

(***************************************************************************)
(* Start-up: the editors' adapters are constructed, their observers are    *)
(* attached and their first connection attempts are under way while the    *)
(* users already draw.                                                     *)
(***************************************************************************)
InitStartup ==
  /\ localDesignState = InitialDesignState
  /\ activeConnections = {}
  /\ srvReady = [p \in Peers |-> "CLOSED"]
  /\ pendingRequests = {}
  /\ snapCall = [r \in 1..MaxRequests |-> NoCall]
  /\ nextRequestId = 1
  /\ toolResult = ToolReturn(Undefined, FALSE, NoSchema)
  /\ toRelay = [p \in Peers |-> <<>>]
  /\ toClient = [p \in Peers |-> <<>>]
  /\ wsState = [p \in Peers |-> IF p \in Editors THEN "CONNECTING" ELSE "CLOSED"]
  /\ canvas = [c \in Editors |-> <<WorkspaceObject>>]
  /\ activeObject = [c \in Editors |-> 0]
  /\ isProcessingRemote = [c \in Editors |-> FALSE]
  /\ resetTimers = [c \in Editors |-> 0]
  /\ shots = [c \in Editors |-> {}]
  /\ uuidNext = 1
  /\ tokens = [c \in Editors |-> EmptyMap]
  /\ cloudSaves = [c \in Editors |-> 0]
  /\ destroyed = [c \in Editors |-> FALSE]
  /\ arrived = <<>>
  /\ dropped = {}
  /\ sentResponses = {}
  /\ reserved = {}
  /\ budget = MaxEvents

NextStartup ==
  \/ \E c \in Editors : ServerOnConnection(c)
  \/ \E c \in Editors : EditorOnOpen(c)
  \/ \E p \in Peers : RelayOnMessage(p)
  \/ \E c \in Editors : EditorOnMessage(c)
  \/ \E c \in Editors : ResetTimerFire(c)
  \/ \E c \in Editors, obj \in UserObjects : UserAdd(c, obj)
  \/ \E c \in Editors, i \in 1..(MaxEvents + 1) :
        UserModify(c, i, ("left" :> "20"))
  \/ \E c \in Editors, i \in 1..(MaxEvents + 1) : UserRemove(c, i)

SpecStartup == InitStartup /\ [][NextStartup]_vars

\* C33 (observer ids): every create_node, update_node and delete_node an
\* editor's observers send carries a defined, non-empty node id, also for a
\* node drawn while the connection was not open or a remote command was
\* being applied.
ObserverEventsHaveId ==
  \A c \in Editors : \A i \in DOMAIN toRelay[c] :
    (/\ toRelay[c][i].source = "MANUAL_UI"
     /\ toRelay[c][i].tool \in {"create_node", "update_node", "delete_node"})
    => Truthy(EventId(toRelay[c][i]))

(***************************************************************************)
(* Cloud save: the facade's save_to_cloud with every peer connected.       *)
(***************************************************************************)
InitSave ==
  /\ localDesignState = InitialDesignState
  /\ activeConnections = Peers
  /\ srvReady = [p \in Peers |-> "OPEN"]
  /\ pendingRequests = {}
  /\ snapCall = [r \in 1..MaxRequests |-> NoCall]
  /\ nextRequestId = 1
  /\ toolResult = ToolReturn(Undefined, FALSE, NoSchema)
  /\ toRelay = [p \in Peers |-> <<>>]
  /\ toClient = [p \in Peers |-> <<>>]
  /\ wsState = [p \in Peers |-> "OPEN"]
  /\ canvas = [c \in Editors |-> <<WorkspaceObject>>]
  /\ activeObject = [c \in Editors |-> 0]
  /\ isProcessingRemote = [c \in Editors |-> FALSE]
  /\ resetTimers = [c \in Editors |-> 0]
  /\ shots = [c \in Editors |-> {}]
  /\ uuidNext = 1
  /\ tokens = [c \in Editors |-> EmptyMap]
  /\ cloudSaves = [c \in Editors |-> 0]
  /\ destroyed = [c \in Editors |-> FALSE]
  /\ arrived = <<>>
  /\ dropped = {}
  /\ sentResponses = {}
  /\ reserved = {}
  /\ budget = MaxEvents

NextSave ==
  \/ \E hasArgs \in BOOLEAN : CallSaveToCloud(hasArgs)
  \/ \E c \in Editors : EditorOnMessage(c)
  \/ \E c \in Editors : ResetTimerFire(c)
  \/ \E c \in Editors : RelayOnMessage(c)

SpecSave == InitSave /\ [][NextSave]_vars

\* C32 (cloud save): a save_to_cloud call creates no Pending Request and
\* sends one frame to each connected client, and a client that handles the
\* frame raises 'automation:save-to-cloud' exactly once.
SaveRaisedOnce ==
  /\ [][\A hasArgs \in BOOLEAN :
          CallSaveToCloud(hasArgs) =>
            /\ pendingRequests' = pendingRequests
            /\ hasArgs => \A c \in BroadcastTargets(NoSocket) :
                            NewFrames(c) = <<SaveRequest>>]_vars
  /\ [][\A c \in Editors :
          (/\ toClient[c] # <<>>
           /\ Head(toClient[c]).tool = "save_to_cloud"
           /\ EditorOnMessage(c))
          => cloudSaves'[c] = cloudSaves[c] + 1]_vars

(***************************************************************************)
(* Reconnection: connections drop and attempts fail, MaxCloses times in    *)
(* all.  The 3000 ms timer of ws.onclose fires and the relay's 'close'     *)
(* event is delivered.                                                     *)
(***************************************************************************)
\* every peer connected and synchronised, as in Init
InitReconnect ==
  /\ localDesignState = InitialDesignState
  /\ activeConnections = Peers
  /\ srvReady = [p \in Peers |-> "OPEN"]
  /\ pendingRequests = {}
  /\ snapCall = [r \in 1..MaxRequests |-> NoCall]
  /\ nextRequestId = 1
  /\ toolResult = ToolReturn(Undefined, FALSE, NoSchema)
  /\ toRelay = [p \in Peers |-> <<>>]
  /\ toClient = [p \in Peers |-> <<>>]
  /\ wsState = [p \in Peers |-> "OPEN"]
  /\ canvas = [c \in Editors |-> <<WorkspaceObject>>]
  /\ activeObject = [c \in Editors |-> 0]
  /\ isProcessingRemote = [c \in Editors |-> FALSE]
  /\ resetTimers = [c \in Editors |-> 0]
  /\ shots = [c \in Editors |-> {}]
  /\ uuidNext = 1
  /\ tokens = [c \in Editors |-> EmptyMap]
  /\ cloudSaves = [c \in Editors |-> 0]
  /\ destroyed = [c \in Editors |-> FALSE]
  /\ arrived = <<>>
  /\ dropped = {}
  /\ sentResponses = {}
  /\ reserved = {}
  /\ budget = MaxCloses

NextReconnect ==
  \/ \E c \in Editors : Disconnect(c)
  \/ \E c \in Editors : ConnectFail(c)
  \/ \E c \in Editors : ServerOnClose(c)
  \/ \E c \in Editors : EditorReconnect(c)
  \/ \E c \in Editors : ServerOnConnection(c)
  \/ \E c \in Editors : EditorOnOpen(c)
  \/ \E c \in Editors : RelayOnMessage(c)
  \/ \E c \in Editors : Destroy(c)

SpecReconnect ==
  /\ InitReconnect
  /\ [][NextReconnect]_vars
  /\ \A c \in Editors : WF_vars(EditorReconnect(c)) /\ WF_vars(ServerOnClose(c))

\* C17 (reconnection): whenever an editor's connection is closed, whether
\* it dropped or the attempt failed and however often that happened before,
\* the editor makes a new connection attempt.
AlwaysReconnects ==
  \A c \in Editors : (wsState[c] = "CLOSED") ~> (wsState[c] = "CONNECTING")

\* an attempt made after the last close of the behaviour
AlwaysReconnectsWitness ==
  /\ budget = 0
  /\ MaxCloses > 1
  /\ \E c \in Editors : wsState[c] = "CONNECTING" /\ c \notin activeConnections

\* C34 (teardown): once destory() has run on an editor's adapter, the
\* adapter holds no open connection and makes no connection attempt.
DestroyedStaysClosed ==
  \A c \in Editors : destroyed[c] => wsState[c] = "CLOSED"

====
